---------------------------- MODULE Spec2Model ----------------------------
(***************************************************************************)
(* Model of pthelp.py: get_addr_index(addr), the extraction of the four    *)
(* 9-bit page-table indices of a virtual address.                          *)
(*                                                                         *)
(* TLC's integers are 32 bits wide and the addresses are 64 bits wide, so  *)
(* a Python int is modelled by its two's-complement binary digits: the set *)
(* of the positions below AddrBits that hold a 1, and the sign, which is   *)
(* the digit repeated at every position from AddrBits up.  The value of    *)
(* [neg |-> FALSE, bits |-> B] is the sum of 2^i over i in B, the value of *)
(* [neg |-> TRUE, bits |-> B] is that sum minus 2^AddrBits.  The operators *)
(* >> and & are computed on the digits as Python computes them.            *)
(*                                                                         *)
(* The function is executed one source line at a time by each caller, in   *)
(* a frame of its own, so that calls of several callers interleave.        *)
(***************************************************************************)
EXTENDS Integers, FiniteSets, Sequences, TLC

VARIABLES frames, workload

vars == <<frames, workload>>

(***************************************************************************)
(* Bounds of the model.                                                    *)
(***************************************************************************)
\* Binary digits kept of a Python int (the sign fills the positions above).
AddrBits == 64

\* Callers that may be inside get_addr_index at the same time.
NumCallers == 2

Callers == 1..NumCallers

BitPos == 0..(AddrBits - 1)

(***************************************************************************)
(* Python ints and the two operators the function uses.                    *)
(***************************************************************************)
\* An int literal of the source (0x1ff is FromNat(511)).
FromNat(n) == [neg |-> FALSE, bits |-> {i \in 0..30 : (n \div 2^i) % 2 = 1}]

\* The exception a shift raises; an exception is a value with an exc field.
ValueError == [exc |-> "ValueError"]

IsExc(v) == "exc" \in DOMAIN v

\* x >> n: digit i of the result is digit i + n of x; the digits that come
\* from above AddrBits are the sign.  A negative count raises ValueError.
RShift(x, n) ==
    IF IsExc(x) THEN x
    ELSE IF n < 0 THEN ValueError
    ELSE [neg  |-> x.neg,
          bits |-> {i - n : i \in {j \in x.bits : j >= n}}
                   \cup (IF x.neg THEN {i \in BitPos : i >= AddrBits - n}
                                  ELSE {})]

\* x & y, digit by digit; an exception raised in an operand propagates.
BitAnd(x, y) ==
    IF IsExc(x) THEN x
    ELSE IF IsExc(y) THEN y
    ELSE [neg |-> x.neg /\ y.neg, bits |-> x.bits \cap y.bits]

(***************************************************************************)
(* get_addr_index, line by line.                                           *)
(***************************************************************************)
\* Mutants of line 2: the mask forgotten; the shift one short.
p1_nomask(addr) == RShift(addr, 12)

p1_shift11(addr) == BitAnd(RShift(addr, 11), FromNat(511))

\* line 2: p1 = (addr >> 12) & 0x1ff
p1(addr) == BitAnd(RShift(addr, 12), FromNat(511))

\* Mutants of line 3: the shift one short; the mask one bit short (0xff).
p2_shift20(addr) == BitAnd(RShift(addr, 20), FromNat(511))

p2_mask8(addr) == BitAnd(RShift(addr, 21), FromNat(255))

\* line 3: p2 = (addr >> 21) & 0x1ff
p2(addr) == BitAnd(RShift(addr, 21), FromNat(511))

\* Mutant of line 4: the shift one too far.
p3_shift31(addr) == BitAnd(RShift(addr, 31), FromNat(511))

\* line 4: p3 = (addr >> 30) & 0x1ff
p3(addr) == BitAnd(RShift(addr, 30), FromNat(511))

\* Mutants of line 5: the shift one short; the mask forgotten; the count
\* negated.
p4_shift38(addr) == BitAnd(RShift(addr, 38), FromNat(511))

p4_nomask(addr) == RShift(addr, 39)

p4_negshift(addr) == BitAnd(RShift(addr, -39), FromNat(511))

\* line 5: p4 = (addr >> 39) & 0x1ff
p4(addr) == BitAnd(RShift(addr, 39), FromNat(511))

\* Mutant of line 6: the tuple in the order of the assignments.
ReturnTupleReversed(locals) == <<locals.p1, locals.p2, locals.p3, locals.p4>>

\* line 6: return (p4, p3, p2, p1), read from the frame's locals
ReturnTuple(locals) == <<locals.p4, locals.p3, locals.p2, locals.p1>>

\* The function run alone from entry to return (no exception raised).
get_addr_index(addr) ==
    ReturnTuple([p1 |-> p1(addr), p2 |-> p2(addr),
                 p3 |-> p3(addr), p4 |-> p4(addr)])

(***************************************************************************)
(* Frames: each call has its own locals (name -> value); nothing is global.*)
(***************************************************************************)
NoFrame == [pc |-> "idle", addr |-> <<>>, locals |-> <<>>, ret |-> <<>>]

\* Mutant of the assignments: the names are globals, one binding seen by
\* every frame.
StoreShared(fs, c, name, val) ==
    [d \in DOMAIN fs |-> [fs[d] EXCEPT !.locals = (name :> val) @@ @]]

\* An assignment to a local name of caller c's frame.
Store(fs, c, name, val) ==
    [fs EXCEPT ![c].locals = (name :> val) @@ @]

\* One assignment line: evaluate, then bind the name and go on, or raise.
Assign(c, name, val, next) ==
    IF IsExc(val)
    THEN [frames EXCEPT ![c].pc = "raised", ![c].ret = val]
    ELSE [Store(frames, c, name, val) EXCEPT ![c].pc = next]

(***************************************************************************)
(* The arguments the callers pass.                                         *)
(***************************************************************************)
\* The digits of the natural n, moved up by s positions.
Place(n, s) == {i + s : i \in FromNat(n).bits} \cap BitPos

MkAddr(neg, hi, l4, l3, l2, l1, off) ==
    [neg  |-> neg,
     bits |-> Place(off, 0) \cup Place(l1, 12) \cup Place(l2, 21)
              \cup Place(l3, 30) \cup Place(l4, 39) \cup Place(hi, 48)]

FieldSamples == {0, 1, 511}

OffsetSamples == {0, 1, 4095}

HighSamples == {0, 1, 2^(AddrBits - 48) - 1}

\* One caller sweeps these: every combination of the sampled fields, offsets,
\* high bits and signs, and every address with a single 1 digit.
SweepAddrs ==
    {MkAddr(neg, hi, l4, l3, l2, l1, off) :
        neg \in BOOLEAN, hi \in HighSamples,
        l4 \in FieldSamples, l3 \in FieldSamples,
        l2 \in FieldSamples, l1 \in FieldSamples, off \in OffsetSamples}
    \cup {[neg |-> FALSE, bits |-> {b}] : b \in BitPos}

\* Concurrent callers pass these: no two agree in any field.
ConcAddrs ==
    {MkAddr(FALSE, 0, 0, 0, 0, 0, 0),
     MkAddr(FALSE, 0, 511, 511, 511, 511, 4095),
     MkAddr(FALSE, 0, 1, 2, 3, 4, 5)}

Args(c) ==
    IF workload = "sweep"
    THEN (IF c = 1 THEN SweepAddrs ELSE {})
    ELSE ConcAddrs

(***************************************************************************)
(* Actions.                                                                *)
(***************************************************************************)
Init ==
    /\ workload \in {"sweep", "concurrent"}
    /\ frames = [c \in Callers |-> NoFrame]

\* line 1: def get_addr_index(addr): a new frame with addr bound.
Call(c, a) ==
    /\ frames[c].pc = "idle"
    /\ frames' = [frames EXCEPT ![c] =
                     [pc |-> "l2", addr |-> a, locals |-> <<>>, ret |-> <<>>]]
    /\ UNCHANGED workload

Line2(c) ==
    /\ frames[c].pc = "l2"
    /\ frames' = Assign(c, "p1", p1(frames[c].addr), "l3")
    /\ UNCHANGED workload

Line3(c) ==
    /\ frames[c].pc = "l3"
    /\ frames' = Assign(c, "p2", p2(frames[c].addr), "l4")
    /\ UNCHANGED workload

Line4(c) ==
    /\ frames[c].pc = "l4"
    /\ frames' = Assign(c, "p3", p3(frames[c].addr), "l5")
    /\ UNCHANGED workload

Line5(c) ==
    /\ frames[c].pc = "l5"
    /\ frames' = Assign(c, "p4", p4(frames[c].addr), "l6")
    /\ UNCHANGED workload

Return(c) ==
    /\ frames[c].pc = "l6"
    /\ frames' = [frames EXCEPT ![c].pc = "done",
                                ![c].ret = ReturnTuple(frames[c].locals)]
    /\ UNCHANGED workload

\* The caller is finished with the result (or the exception) of its call.
Release(c) ==
    /\ frames[c].pc \in {"done", "raised"}
    /\ frames' = [frames EXCEPT ![c] = NoFrame]
    /\ UNCHANGED workload

Next ==
    \E c \in Callers :
        \/ \E a \in Args(c) : Call(c, a)
        \/ Line2(c)
        \/ Line3(c)
        \/ Line4(c)
        \/ Line5(c)
        \/ Return(c)
        \/ Release(c)

Spec == Init /\ [][Next]_vars

(***************************************************************************)
(* Vocabulary of the properties: arithmetic on the binary digits.          *)
(***************************************************************************)
Done(c) == frames[c].pc = "done"

\* a is in the unsigned 64-bit domain, 0 <= a < 2^64.
IsU64(a) == ~a.neg /\ a.bits \subseteq 0..63

\* a is in [0, 2^48).
IsU48(a) == ~a.neg /\ a.bits \subseteq 0..47

RECURSIVE SumPow2(_)
SumPow2(S) ==
    IF S = {} THEN 0
    ELSE LET i == CHOOSE j \in S : TRUE IN 2^i + SumPow2(S \ {i})

\* (a div 2^s) mod 512, as a natural number: the nine binary digits of a
\* from position s up, read as a number.
DivMod512(a, s) == SumPow2({i \in 0..8 : (s + i) \in a.bits})

\* The ints 0..511.
Nat9 == {FromNat(n) : n \in 0..511}

Zero == FromNat(0)

\* a mod 2^w (non-negative also for a negative a, as Python's %).
Mod2Pow(a, w) == [neg |-> FALSE, bits |-> {i \in a.bits : i < w}]

\* a with its low 12 bits replaced by k, k in 0..4095.
WithOffset(a, k) ==
    [a EXCEPT !.bits = {i \in @ : i >= 12} \cup FromNat(k).bits]

\* a with bits 48 and up replaced by the digits of h.
WithHigh(a, h) ==
    [neg |-> FALSE, bits |-> {i \in a.bits : i < 48} \cup Place(h, 48)]

\* a with the single bit b changed.
Flip(a, b) ==
    [a EXCEPT !.bits = IF b \in @ THEN @ \ {b} ELSE @ \cup {b}]

\* a div 4096 of a non-negative a, as digits.
PageNumber(a) == {i - 12 : i \in {j \in a.bits : j >= 12}}

\* x * 2^s of a non-negative x, as digits.
TimesPow2(x, s) == {i + s : i \in x.bits}

\* X + Y of two non-negative numbers given by their digits, with carries.
RECURSIVE Plus(_, _)
Plus(X, Y) ==
    IF Y = {} THEN X
    ELSE Plus((X \ Y) \cup (Y \ X), {i + 1 : i \in X \cap Y})

\* L4*2^39 + L3*2^30 + L2*2^21 + L1*2^12 + off, as digits.
Compose(t, off) ==
    Plus(Plus(Plus(Plus(TimesPow2(t[1], 39), TimesPow2(t[2], 30)),
                   TimesPow2(t[3], 21)),
              TimesPow2(t[4], 12)),
         off.bits)

\* The bit range of the k-th field of the tuple (1: L4, ..., 4: L1).
FieldRange(k) == (12 + 9 * (4 - k))..(20 + 9 * (4 - k))

\* Offsets tried for offset independence: every single bit, every offset
\* with a single bit clear, none and all.
OffsetsTried ==
    {0, 4095} \cup {2^i : i \in 0..11} \cup {4095 - 2^i : i \in 0..11}

\* High parts (bits 48 and up) tried.
HighsTried == HighSamples \cup {2^i : i \in 0..(AddrBits - 49)}

\* Field values tried for the tuples that must be some address's result.
FieldsTried == FieldSamples \cup {2, 255, 256, 510}

(***************************************************************************)
(* C1.  For every address a in the unsigned 64-bit domain the call returns *)
(* (L4, L3, L2, L1) in that order, with L4 = (a div 2^39) mod 512,         *)
(* L3 = (a div 2^30) mod 512, L2 = (a div 2^21) mod 512 and                *)
(* L1 = (a div 2^12) mod 512.                                              *)
(***************************************************************************)
C1_FieldsAndOrder ==
    \A c \in Callers :
        (Done(c) /\ IsU64(frames[c].addr)) =>
            frames[c].ret = <<FromNat(DivMod512(frames[c].addr, 39)),
                              FromNat(DivMod512(frames[c].addr, 30)),
                              FromNat(DivMod512(frames[c].addr, 21)),
                              FromNat(DivMod512(frames[c].addr, 12))>>

C1_Witness ==
    \E c \in Callers :
        /\ Done(c) /\ IsU64(frames[c].addr)
        /\ frames[c].addr.bits \cap 0..11 # {}
        /\ frames[c].addr.bits \cap 48..63 # {}
        /\ frames[c].ret = <<FromNat(511), FromNat(0), FromNat(1), FromNat(511)>>

(***************************************************************************)
(* C2.  For all addresses, every one of the four fields returned lies in   *)
(* the range [0, 511].                                                     *)
(***************************************************************************)
C2_FieldsInRange ==
    \A c \in Callers :
        Done(c) =>
            /\ Len(frames[c].ret) = 4
            /\ \A k \in 1..4 : frames[c].ret[k] \in Nat9

C2_Witness ==
    \E c \in Callers :
        /\ Done(c)
        /\ frames[c].addr.neg
        /\ frames[c].addr.bits \cap 48..63 # {}
        /\ frames[c].ret[4] = FromNat(511)
        /\ frames[c].ret[3] = FromNat(511)

(***************************************************************************)
(* C3.  Offset independence: the address with its low 12 bits replaced by  *)
(* any k in [0, 4095] yields the same tuple; bits 0-11 never affect the    *)
(* result.                                                                 *)
(***************************************************************************)
C3_OffsetIndependence ==
    \A c \in Callers :
        Done(c) =>
            \A k \in OffsetsTried :
                get_addr_index(WithOffset(frames[c].addr, k)) = frames[c].ret

C3_Witness ==
    \E c \in Callers :
        /\ Done(c)
        /\ frames[c].addr.bits \cap 0..11 = 0..11
        /\ frames[c].ret[4] = FromNat(1)
        /\ get_addr_index(WithOffset(frames[c].addr, 0)) = frames[c].ret

(***************************************************************************)
(* C4.  All bits above bit 47 are discarded: the call on a returns what    *)
(* the call on a mod 2^48 returns, so addresses that differ only in bits   *)
(* 48-63 yield identical tuples.                                           *)
(***************************************************************************)
C4_HighBitsDiscarded ==
    \A c \in Callers :
        Done(c) =>
            /\ get_addr_index(Mod2Pow(frames[c].addr, 48)) = frames[c].ret
            /\ \A h \in HighsTried :
                   get_addr_index(WithHigh(frames[c].addr, h)) = frames[c].ret

C4_Witness ==
    \E c \in Callers :
        /\ Done(c) /\ IsU64(frames[c].addr)
        /\ frames[c].addr.bits \cap 48..63 = 48..63
        /\ frames[c].ret[1] = FromNat(1)
        /\ Mod2Pow(frames[c].addr, 48) # frames[c].addr

(***************************************************************************)
(* C5.  Non-overlap: the bit ranges [12:20], [21:29], [30:38], [39:47] of  *)
(* the four fields are pairwise disjoint and cover exactly bits 12-47;     *)
(* changing a single bit b in 12..47 of the address changes exactly one    *)
(* output field, the one whose range holds b, and leaves the other three   *)
(* unchanged (and a bit outside 12..47 changes none).                      *)
(***************************************************************************)
C5_NonOverlap ==
    /\ \A j, k \in 1..4 : j # k => FieldRange(j) \cap FieldRange(k) = {}
    /\ UNION {FieldRange(k) : k \in 1..4} = 12..47
    /\ \A c \in Callers :
           Done(c) =>
               \A b \in BitPos :
                   LET r == get_addr_index(Flip(frames[c].addr, b))
                       changed == {k \in 1..4 : r[k] # frames[c].ret[k]}
                   IN  /\ changed = {k \in 1..4 : b \in FieldRange(k)}
                       /\ b \in 12..47 => Cardinality(changed) = 1

C5_Witness ==
    \E c \in Callers :
        /\ Done(c)
        /\ frames[c].ret = <<FromNat(1), FromNat(511), FromNat(0), FromNat(1)>>
        /\ get_addr_index(Flip(frames[c].addr, 30))
               = <<FromNat(1), FromNat(510), FromNat(0), FromNat(1)>>

(***************************************************************************)
(* C6.  The documented cases: 0x0 -> (0,0,0,0); 0x1000 -> (0,0,0,1);       *)
(* 0x200000 -> (0,0,1,0); 0x40000000 -> (0,1,0,0);                         *)
(* 0x8000000000 -> (1,0,0,0); 0xFFFFFFFFFFFF -> (511,511,511,511).         *)
(***************************************************************************)
C6_DocumentedCases ==
    \A c \in Callers :
        Done(c) =>
            LET a == frames[c].addr
                r == frames[c].ret
                n(t) == <<FromNat(t[1]), FromNat(t[2]), FromNat(t[3]), FromNat(t[4])>>
            IN  /\ a = FromNat(0) => r = n(<<0, 0, 0, 0>>)
                /\ a = FromNat(4096) => r = n(<<0, 0, 0, 1>>)
                /\ a = FromNat(2097152) => r = n(<<0, 0, 1, 0>>)
                /\ a = FromNat(1073741824) => r = n(<<0, 1, 0, 0>>)
                /\ a = [neg |-> FALSE, bits |-> {39}] => r = n(<<1, 0, 0, 0>>)
                /\ a = [neg |-> FALSE, bits |-> 0..47] => r = n(<<511, 511, 511, 511>>)

C6_Witness ==
    \E c \in Callers :
        /\ Done(c)
        /\ frames[c].addr = FromNat(4096)
        /\ frames[c].ret = <<Zero, Zero, Zero, FromNat(1)>>

(***************************************************************************)
(* C7.  Determinism and statelessness: the tuple a call returns is the one *)
(* the function yields for its argument when run alone, whatever calls,    *)
(* with whatever arguments and by whatever callers, came before it or      *)
(* interleaved with it; so two calls with the same argument return         *)
(* identical tuples.                                                       *)
(***************************************************************************)
C7_Deterministic ==
    \A c \in Callers :
        /\ Done(c) => frames[c].ret = get_addr_index(frames[c].addr)
        /\ \A d \in Callers :
               (Done(c) /\ Done(d) /\ frames[c].addr = frames[d].addr)
                   => frames[c].ret = frames[d].ret

C7_Witness ==
    \E c, d \in Callers :
        /\ workload = "concurrent"
        /\ c # d
        /\ Done(c)
        /\ frames[d].pc = "l6"
        /\ frames[c].addr # frames[d].addr
        /\ frames[c].ret # ReturnTuple(frames[d].locals)

(***************************************************************************)
(* C8.  Totality: no call raises, whatever the integer passed (negative or *)
(* not, canonical or not); a call that has returned has returned a tuple   *)
(* of exactly four ints.                                                   *)
(***************************************************************************)
C8_Total ==
    \A c \in Callers :
        /\ frames[c].pc # "raised"
        /\ Done(c) =>
               /\ Len(frames[c].ret) = 4
               /\ \A k \in 1..4 : ~IsExc(frames[c].ret[k])

C8_Witness ==
    \E c \in Callers :
        /\ Done(c)
        /\ frames[c].addr.neg
        /\ frames[c].addr.bits \cap 48..63 # {}
        /\ Len(frames[c].ret) = 4

(***************************************************************************)
(* C9 as stated.  Width hazard: with the address reduced mod 2^w, for any  *)
(* w of fewer than 48 bits, the L4 field is zero for every address whose   *)
(* bits 39-47 should have set it.                                          *)
(***************************************************************************)
C9_AsStated ==
    \A c \in Callers :
        (Done(c) /\ IsU64(frames[c].addr) /\ frames[c].ret[1] # Zero) =>
            \A w \in 0..47 :
                get_addr_index(Mod2Pow(frames[c].addr, w))[1] = Zero

(***************************************************************************)
(* C9 as amended.  With the address reduced mod 2^w: for w <= 39 the L4    *)
(* field is zero for every address; for 39 < w < 48 the L4 field is the    *)
(* intended L4 mod 2^(w - 39): only bits w-47 of the address are lost.     *)
(***************************************************************************)
C9_WidthHazard ==
    \A c \in Callers :
        (Done(c) /\ IsU64(frames[c].addr)) =>
            \A w \in 0..47 :
                get_addr_index(Mod2Pow(frames[c].addr, w))[1]
                    = IF w <= 39 THEN Zero
                      ELSE Mod2Pow(frames[c].ret[1], w - 39)

C9_Witness ==
    \E c \in Callers :
        /\ Done(c) /\ IsU64(frames[c].addr)
        /\ frames[c].ret[1] = FromNat(511)
        /\ get_addr_index(Mod2Pow(frames[c].addr, 39))[1] = Zero
        /\ get_addr_index(Mod2Pow(frames[c].addr, 47))[1] = FromNat(255)

(***************************************************************************)
(* C10.  Round trip: for every address a in [0, 2^48), with (L4, L3, L2,   *)
(* L1) the tuple returned, L4*2^39 + L3*2^30 + L2*2^21 + L1*2^12 +         *)
(* (a mod 4096) = a; an address that differs from a in one bit yields the  *)
(* same tuple iff it has the same page number a div 4096; and a tuple of   *)
(* values in [0, 511] is the result of the address composed from it.       *)
(***************************************************************************)
C10_RoundTrip ==
    \A c \in Callers :
        (Done(c) /\ IsU48(frames[c].addr)) =>
            LET a == frames[c].addr
                r == frames[c].ret
            IN  /\ Compose(r, Mod2Pow(a, 12)) = a.bits
                /\ \A b \in 0..47 :
                       (get_addr_index(Flip(a, b)) = r)
                           <=> (PageNumber(Flip(a, b)) = PageNumber(a))
                /\ \A k \in 1..4 : \A n \in FieldsTried :
                       LET t == [r EXCEPT ![k] = FromNat(n)]
                       IN  get_addr_index([neg  |-> FALSE,
                                           bits |-> Compose(t, Zero)]) = t

C10_Witness ==
    \E c \in Callers :
        /\ Done(c) /\ IsU48(frames[c].addr)
        /\ frames[c].addr.bits \cap 0..11 # {}
        /\ frames[c].ret = <<FromNat(511), FromNat(1), FromNat(511), FromNat(1)>>
        /\ Compose(frames[c].ret, Mod2Pow(frames[c].addr, 12)) = frames[c].addr.bits

=============================================================================
